---- MODULE Spec2Model ----
(***************************************************************************)
(* Model of SimpleOptionPlayer (src/src/ecSimpleOptionPlayer.ts) and the   *)
(* helpers it uses (src/src/util.ts).                                      *)
(*                                                                         *)
(* Encoding of JavaScript values:                                          *)
(*   - a value that may be null/undefined is the empty tuple (Null) or the *)
(*     1-tuple <<v>> of the value;                                         *)
(*   - an array is a function over 0..length-1, as in the source;          *)
(*   - an object used as a dictionary is a function over its own keys.     *)
(***************************************************************************)
EXTENDS Integers, Sequences, FiniteSets, TLC

\* Longest optionList drawn at construction.
MaxLen == 2
\* Deepest nesting of navigation calls made from inside chart.setOption.
MaxDepth == 2

Null == <<>>
Box(v) == <<v>>
Val(b) == b[1]

Min(a, b) == IF a <= b THEN a ELSE b
Max(a, b) == IF a >= b THEN a ELSE b

\* Array helpers (0-based, as in the source).
ArrLen(arr) == Cardinality(DOMAIN arr)
IndexOf(arr, v) ==
    IF \E i \in DOMAIN arr : arr[i] = v
    THEN CHOOSE i \in DOMAIN arr : arr[i] = v /\ \A j \in DOMAIN arr : arr[j] = v => i <= j
    ELSE -1
Arr(seq) == [i \in 0..(Len(seq) - 1) |-> seq[i + 1]]

----------------------------------------------------------------------------
\* util.ts

HasOwn(own, prop) == prop \in DOMAIN own

GetMapValue(map, key) ==
    IF key # Null /\ HasOwn(map, Val(key)) THEN Box(map[Val(key)]) ELSE Null

----------------------------------------------------------------------------
\* Construction inputs.

\* opt.dataMeta: the table of the README, extended by a record ("ccc") that
\* matches "bbb" in both directions with different parameters.
DataMeta ==
    [aaa |-> [dimensions |-> Arr(<<"qqq", "www", "eee", "rrr">>),
              uniqueDimension |-> Null,
              dividingMethod |-> Null],
     bbb |-> [dimensions |-> Arr(<<"ccc", "www", "eee">>),
              uniqueDimension |-> Box("www"),
              dividingMethod |-> Box("duplicate")],
     ccc |-> [dimensions |-> Arr(<<"www", "ccc">>),
              uniqueDimension |-> Box("ccc"),
              dividingMethod |-> Box("split")]]

\* dataMetaKey of an entry: a key of the table, or one the table lacks.
DataMetaKeys == {"aaa", "bbb", "ccc", "zzz"}

\* key of an entry: null/absent or a user string.
OptionKeys == {"A", "B"}
EntryKeys == {Null} \cup {Box(k) : k \in OptionKeys}

\* Argument of go(): an entry key, a key no entry can carry, or null.
GoKeys == EntryKeys \cup {Box("nonexistent")}

ChartHandles == {Null, Box("instance"), Box("provider")}

\* The chart instances the application creates for a provider function to
\* return (README: chart: function () { return myChart; }).
Charts == {"chartA", "chartB"}
SeriesIndexes == {Null, Box(1)}
ReplaceMerge == Box(Arr(<<"xAxis", "yAxis">>))

OptionLists ==
    UNION {
        { [i \in 0..(n - 1) |-> [key |-> ks[i], dataMetaKey |-> ms[i], option |-> i]] :
            ks \in [0..(n - 1) -> EntryKeys], ms \in [0..(n - 1) -> DataMetaKeys] }
        : n \in 0..MaxLen }

\* The argument of create(): every combination of a chart handle, a dataMeta
\* that is the table or not an object, an optionList that is an array (empty
\* included) or missing, and a seriesIndex.
Opts ==
    [chart : ChartHandles,
     dataMeta : {Null, Box(DataMeta)},
     optionList : {Null} \cup {Box(l) : l \in OptionLists},
     seriesIndex : SeriesIndexes,
     replaceMerge : {ReplaceMerge}]

----------------------------------------------------------------------------
\* State.

VARIABLES
    opt,             \* the argument create() was called with
    constructed,     \* TRUE iff the constructor returned a player
    seriesIndex,     \* this._seriesIndex
    optionMap,       \* this._optionMap
    currOptionIdx,   \* this._currOptionIdx: Null or <<index>>
    depth,           \* the number of chart.setOption calls in flight
    myChart,         \* the chart a provider function returns now: Null or <<chart>>
    last             \* the last step: the call made and what it did

vars == <<opt, constructed, seriesIndex, optionMap, currOptionIdx, depth, myChart, last>>

fields == <<opt, constructed, seriesIndex, optionMap>>

\* The constructor keeps references to these fields of opt (lines 118-122).
chart == Val(opt.chart)
dataMeta == Val(opt.dataMeta)
optionList == Val(opt.optionList)
replaceMerge == opt.replaceMerge

EmptyMap == [k \in {} |-> 0]

\* The loop without the duplicate-key assert: the last entry of a key wins.
RECURSIVE BuildOptionMap_LastWins(_, _, _)
BuildOptionMap_LastWins(list, i, map) ==
    IF ~(i < ArrLen(list)) THEN Box(map)
    ELSE LET optionKey == list[i].key IN
         IF optionKey # Null
         THEN BuildOptionMap_LastWins(list, i + 1,
                  [k \in DOMAIN map \cup {Val(optionKey)} |->
                      IF k = Val(optionKey) THEN i ELSE map[k]])
         ELSE BuildOptionMap_LastWins(list, i + 1, map)

\* The constructor's loop over optionList (lines 126-133), from index i with
\* the map built so far: the map, or Null when the duplicate-key assert throws.
RECURSIVE BuildOptionMap(_, _, _)
BuildOptionMap(list, i, map) ==
    IF ~(i < ArrLen(list)) THEN Box(map)
    ELSE LET optionKey == list[i].key IN
         IF optionKey # Null
         THEN IF HasOwn(map, Val(optionKey)) THEN Null
              ELSE BuildOptionMap(list, i + 1,
                       [k \in DOMAIN map \cup {Val(optionKey)} |->
                           IF k = Val(optionKey) THEN i ELSE map[k]])
         ELSE BuildOptionMap(list, i + 1, map)

\* The assert without the check of the list's length.
ConstructorAssert_AnyLength(o) ==
    /\ o.chart # Null
    /\ o.dataMeta # Null
    /\ o.optionList # Null

\* The first assert of the constructor (lines 111-116).
ConstructorAssert(o) ==
    /\ o.chart # Null
    /\ o.dataMeta # Null
    /\ o.optionList # Null
    /\ ArrLen(Val(o.optionList)) # 0

\* opt.seriesIndex || 0
SeriesIndexOf(o) ==
    IF o.seriesIndex # Null /\ Val(o.seriesIndex) # 0 THEN Val(o.seriesIndex) ELSE 0

\* new SimpleOptionPlayer(o): Null when an assert throws, else the fields the
\* constructor computes.
Constructor(o) ==
    IF ~ConstructorAssert(o) THEN Null
    ELSE LET map == BuildOptionMap(Val(o.optionList), 0, EmptyMap) IN
         IF map = Null THEN Null
         ELSE Box([optionMap |-> Val(map),
                   seriesIndex |-> SeriesIndexOf(o),
                   currOptionIdx |-> Null])

\* What a step did. op is the method called ("setOption" when a render in
\* flight ends), key the argument of go(), from the position before the
\* step, idx the index the call was to move to, thrown the error it threw
\* ("none" if it did not), render the arguments of the chart.setOption call
\* it entered, returned the value it returned, calls the number of calls of
\* _getChart and of the provider function it made.
Step(op, key, from, idx, threw, calls, render, value) ==
    [op |-> op, key |-> key, from |-> from, idx |-> idx,
     thrown |-> threw, calls |-> calls, render |-> render, returned |-> value]

\* The step did not reach this._getChart().
NoCalls == [getChart |-> 0, provider |-> 0]

Init ==
    /\ opt \in Opts
    /\ LET p == Constructor(opt) IN
         /\ constructed = (p # Null)
         /\ seriesIndex = IF p # Null THEN Val(p).seriesIndex ELSE 0
         /\ optionMap = IF p # Null THEN Val(p).optionMap ELSE EmptyMap
         /\ currOptionIdx = Null
         /\ last = Step("create", Null, Null, Null,
                        IF p # Null THEN "none" ELSE "Error", NoCalls, Null, Null)
    /\ depth = 0
    /\ myChart = Null

----------------------------------------------------------------------------
\* Transition descriptor (_doChangeOption, lines 161-191).

\* list[i] of JavaScript: undefined (Null) outside the array.
At(list, i) == IF i \in DOMAIN list THEN Box(list[i]) ELSE Null

Threw == [threw |-> TRUE, value |-> Null]
Returned(v) == [threw |-> FALSE, value |-> v]

\* findCommonDimension(optionWrapA, optionWrapB), lines 200-213: Threw when
\* null or undefined is dereferenced (TypeError); else Returned(Null)
\* (undefined) or Returned(<<{uniqueDimension, dividingMethod}>>).
FindCommonDimension(optionWrapA, optionWrapB) ==
    IF optionWrapA = Null \/ optionWrapB = Null THEN Threw
    ELSE
    LET metaA == GetMapValue(dataMeta, Box(Val(optionWrapA).dataMetaKey))
        metaB == GetMapValue(dataMeta, Box(Val(optionWrapB).dataMetaKey))
    IN  IF metaB = Null THEN Threw
        ELSE LET uniqueDimensionB == Val(metaB).uniqueDimension IN
             IF uniqueDimensionB = Null THEN Returned(Null)
             ELSE IF metaA = Null THEN Threw
             ELSE IF IndexOf(Val(metaA).dimensions, Val(uniqueDimensionB)) >= 0
                  THEN Returned(Box([uniqueDimension |-> uniqueDimensionB,
                                     dividingMethod |-> Val(metaB).dividingMethod]))
                  ELSE Returned(Null)

\* The match tried in one direction only.
Common_FirstOnly(oldOptionWrap, newOptionWrap) ==
    FindCommonDimension(oldOptionWrap, newOptionWrap)

\* The two directions tried in the other order.
Common_Swapped(oldOptionWrap, newOptionWrap) ==
    LET first == FindCommonDimension(newOptionWrap, oldOptionWrap) IN
    IF first.threw \/ first.value # Null THEN first
    ELSE FindCommonDimension(oldOptionWrap, newOptionWrap)

\* findCommonDimension(oldOptionWrap, newOptionWrap)
\*     || findCommonDimension(newOptionWrap, oldOptionWrap), lines 175-177
Common(oldOptionWrap, newOptionWrap) ==
    LET first == FindCommonDimension(oldOptionWrap, newOptionWrap) IN
    IF first.threw \/ first.value # Null THEN first
    ELSE FindCommonDimension(newOptionWrap, oldOptionWrap)

\* The two shapes of transitionOpt. A field the object lacks is Null.
\* Lines 168-172: { to: { seriesIndex } }
DefaultTransition(targetSeriesIndex) ==
    [from |-> Null,
     to |-> [seriesIndex |-> targetSeriesIndex, dimension |-> Null],
     dividingMethod |-> Null]

\* The correlated descriptor with the source series left at 0.
CorrelatedTransition_FromZero(targetSeriesIndex, common) ==
    [from |-> Box([seriesIndex |-> 0, dimension |-> common.uniqueDimension]),
     to |-> [seriesIndex |-> targetSeriesIndex, dimension |-> common.uniqueDimension],
     dividingMethod |-> common.dividingMethod]

\* Lines 179-189: { from: { seriesIndex, dimension }, to: { seriesIndex,
\* dimension }, dividingMethod }
CorrelatedTransition(targetSeriesIndex, common) ==
    [from |-> Box([seriesIndex |-> targetSeriesIndex, dimension |-> common.uniqueDimension]),
     to |-> [seriesIndex |-> targetSeriesIndex, dimension |-> common.uniqueDimension],
     dividingMethod |-> common.dividingMethod]

\* The new entry's metadata looked up on a first call too.
TransitionOpt_AlwaysLookup(curr, newOptionIdx) ==
    LET oldOptionWrap == IF curr # Null THEN At(optionList, Val(curr)) ELSE Null
        newOptionWrap == At(optionList, newOptionIdx)
        common == Common(IF oldOptionWrap # Null THEN oldOptionWrap ELSE newOptionWrap,
                         newOptionWrap)
    IN  IF common.threw THEN Threw
        ELSE IF oldOptionWrap # Null /\ common.value # Null
             THEN Returned(CorrelatedTransition(seriesIndex, Val(common.value)))
             ELSE Returned(DefaultTransition(seriesIndex))

\* The descriptor of a first call used again when the target is the current
\* entry.
TransitionOpt_SameAsFirst(curr, newOptionIdx) ==
    LET oldOptionWrap == IF curr # Null /\ curr # Box(newOptionIdx)
                         THEN At(optionList, Val(curr)) ELSE Null
        newOptionWrap == At(optionList, newOptionIdx)
    IN  IF oldOptionWrap # Null
        THEN LET common == Common(oldOptionWrap, newOptionWrap) IN
             IF common.threw THEN Threw
             ELSE IF common.value # Null
                  THEN Returned(CorrelatedTransition(seriesIndex, Val(common.value)))
                  ELSE Returned(DefaultTransition(seriesIndex))
        ELSE Returned(DefaultTransition(seriesIndex))

\* Lines 162-191: the descriptor for a move to newOptionIdx from the position
\* curr; Threw when findCommonDimension throws.
TransitionOpt(curr, newOptionIdx) ==
    LET oldOptionWrap == IF curr # Null THEN At(optionList, Val(curr)) ELSE Null
        newOptionWrap == At(optionList, newOptionIdx)
    IN  IF oldOptionWrap # Null
        THEN LET common == Common(oldOptionWrap, newOptionWrap) IN
             IF common.threw THEN Threw
             ELSE IF common.value # Null
                  THEN Returned(CorrelatedTransition(seriesIndex, Val(common.value)))
                  ELSE Returned(DefaultTransition(seriesIndex))
        ELSE Returned(DefaultTransition(seriesIndex))

----------------------------------------------------------------------------
\* Operations.

\* The chart resolved once, when the player is constructed: the application
\* has none yet.
GetChart_AtConstruction == IF chart = "provider" THEN Null ELSE Box(chart)

\* _getChart(), lines 217-219: what a provider function returns now, or the
\* chart instance given to the constructor.
GetChart == IF chart = "provider" THEN myChart ELSE Box(chart)

\* One call of _getChart(), which calls the provider function if there is one.
GetChartCalls == [getChart |-> 1, provider |-> IF chart = "provider" THEN 1 ELSE 0]

\* The call made with the option of the first entry.
SetOptionCall_FirstOption(newOptionIdx, transitionOpt) ==
    [chart |-> Val(GetChart),
     option |-> optionList[0].option,
     replaceMerge |-> replaceMerge,
     transition |-> transitionOpt]

\* The call this._getChart().setOption(...), lines 195-198: the chart that
\* receives it and its arguments.
SetOptionCall(newOptionIdx, transitionOpt) ==
    [chart |-> Val(GetChart),
     option |-> optionList[newOptionIdx].option,
     replaceMerge |-> replaceMerge,
     transition |-> transitionOpt]

\* _doChangeOption that enters chart.setOption with the position not yet set.
DoChangeOption_PositionNotSet(op, key, newOptionIdx) ==
    LET t == TransitionOpt(currOptionIdx, newOptionIdx) IN
    /\ ~t.threw
    /\ At(optionList, newOptionIdx) # Null
    /\ GetChart # Null
    /\ depth' = depth + 1
    /\ last' = Step(op, key, currOptionIdx, Box(newOptionIdx), "none", GetChartCalls,
                    Box(SetOptionCall(newOptionIdx, t.value)), Null)
    /\ UNCHANGED currOptionIdx

\* _doChangeOption that puts the position back when there is no chart to
\* render to.
DoChangeOption_RollBack(op, key, newOptionIdx) ==
    LET t == TransitionOpt(currOptionIdx, newOptionIdx) IN
    IF t.threw
    THEN /\ last' = Step(op, key, currOptionIdx, Box(newOptionIdx), "TypeError", NoCalls,
                         Null, Null)
         /\ UNCHANGED <<currOptionIdx, depth>>
    ELSE IF GetChart = Null
    THEN /\ last' = Step(op, key, currOptionIdx, Box(newOptionIdx), "ChartError",
                         GetChartCalls, Null, Null)
         /\ UNCHANGED <<currOptionIdx, depth>>
    ELSE /\ At(optionList, newOptionIdx) # Null
         /\ currOptionIdx' = Box(newOptionIdx)
         /\ depth' = depth + 1
         /\ last' = Step(op, key, currOptionIdx, Box(newOptionIdx), "none", GetChartCalls,
                         Box(SetOptionCall(newOptionIdx, t.value)), Null)

\* _doChangeOption that sets the position before it computes the descriptor.
DoChangeOption_PositionFirst(op, key, newOptionIdx) ==
    LET t == TransitionOpt(currOptionIdx, newOptionIdx) IN
    /\ currOptionIdx' = Box(newOptionIdx)
    /\ IF t.threw
       THEN /\ last' = Step(op, key, currOptionIdx, Box(newOptionIdx), "TypeError", NoCalls,
                            Null, Null)
            /\ UNCHANGED depth
       ELSE IF GetChart = Null
       THEN /\ last' = Step(op, key, currOptionIdx, Box(newOptionIdx), "ChartError",
                            GetChartCalls, Null, Null)
            /\ UNCHANGED depth
       ELSE /\ At(optionList, newOptionIdx) # Null
            /\ depth' = depth + 1
            /\ last' = Step(op, key, currOptionIdx, Box(newOptionIdx), "none",
                            GetChartCalls,
                            Box(SetOptionCall(newOptionIdx, t.value)), Null)

\* _doChangeOption(newOptionIdx) up to the point where chart.setOption is
\* entered (lines 161-198), with _getChart (lines 217-219). After the position
\* is set, calling setOption on what a provider function returns throws when
\* the application has no chart yet (ChartError), and reading .option of an
\* undefined entry throws.
DoChangeOption(op, key, newOptionIdx) ==
    LET t == TransitionOpt(currOptionIdx, newOptionIdx) IN
    IF t.threw
    THEN /\ last' = Step(op, key, currOptionIdx, Box(newOptionIdx), "TypeError", NoCalls,
                         Null, Null)
         /\ UNCHANGED <<currOptionIdx, depth>>
    ELSE /\ currOptionIdx' = Box(newOptionIdx)
         /\ IF GetChart = Null
            THEN /\ last' = Step(op, key, currOptionIdx, Box(newOptionIdx), "ChartError",
                                 GetChartCalls, Null, Null)
                 /\ UNCHANGED depth
            ELSE IF At(optionList, newOptionIdx) = Null
            THEN /\ last' = Step(op, key, currOptionIdx, Box(newOptionIdx), "TypeError",
                                 GetChartCalls, Null, Null)
                 /\ UNCHANGED depth
            ELSE /\ depth' = depth + 1
                 /\ last' = Step(op, key, currOptionIdx, Box(newOptionIdx), "none",
                                 GetChartCalls,
                                 Box(SetOptionCall(newOptionIdx, t.value)), Null)

\* A call can be made by the application (no render in flight) or by the
\* renderer from inside setOption, up to MaxDepth renders deep.
CanCall == constructed /\ depth < MaxDepth

NextOptionIdx(curr, list) ==
    IF curr = Null THEN 0 ELSE Min(ArrLen(list) - 1, Val(curr) + 1)

\* previous() that starts one past the last index.
PreviousOptionIdx_OffByOne(curr, list) ==
    IF curr = Null THEN ArrLen(list) ELSE Max(0, Val(curr) - 1)

PreviousOptionIdx(curr, list) ==
    IF curr = Null THEN ArrLen(list) - 1 ELSE Max(0, Val(curr) - 1)

next ==
    /\ CanCall
    /\ DoChangeOption("next", Null, NextOptionIdx(currOptionIdx, optionList))
    /\ UNCHANGED <<fields, myChart>>

previous ==
    /\ CanCall
    /\ DoChangeOption("previous", Null, PreviousOptionIdx(currOptionIdx, optionList))
    /\ UNCHANGED <<fields, myChart>>

\* go() that falls back to the first entry when the key is not found.
go_FallbackFirst(optionKey) ==
    /\ CanCall
    /\ LET newOptionIdx == GetMapValue(optionMap, optionKey) IN
         DoChangeOption("go", optionKey, IF newOptionIdx = Null THEN 0 ELSE Val(newOptionIdx))
    /\ UNCHANGED <<fields, myChart>>

go(optionKey) ==
    /\ CanCall
    /\ LET newOptionIdx == GetMapValue(optionMap, optionKey) IN
         IF newOptionIdx = Null
         THEN /\ last' = Step("go", optionKey, currOptionIdx, Null, "Error", NoCalls,
                              Null, Null)
              /\ UNCHANGED <<currOptionIdx, depth>>
         ELSE DoChangeOption("go", optionKey, Val(newOptionIdx))
    /\ UNCHANGED <<fields, myChart>>

\* The keys collected in reverse order.
OptionKeysOf_Reversed(list) == [i \in 0..(ArrLen(list) - 1) |-> list[ArrLen(list) - 1 - i].key]

OptionKeysOf(list) == [i \in 0..(ArrLen(list) - 1) |-> list[i].key]

getOptionKeys ==
    /\ constructed
    /\ last' = Step("getOptionKeys", Null, currOptionIdx, Null, "none", NoCalls, Null,
                    Box(OptionKeysOf(optionList)))
    /\ UNCHANGED <<currOptionIdx, depth>>
    /\ UNCHANGED <<fields, myChart>>

\* The innermost chart.setOption call returns, and with it the navigation
\* call that made it.
setOptionReturn ==
    /\ depth > 0
    /\ depth' = depth - 1
    /\ last' = Step("setOption", Null, currOptionIdx, Null, "none", NoCalls, Null, Null)
    /\ UNCHANGED currOptionIdx
    /\ UNCHANGED <<fields, myChart>>

\* The innermost chart.setOption call throws; the navigation call that made
\* it lets the error through.
setOptionThrow ==
    /\ depth > 0
    /\ depth' = depth - 1
    /\ last' = Step("setOption", Null, currOptionIdx, Null, "RenderError", NoCalls,
                    Null, Null)
    /\ UNCHANGED currOptionIdx
    /\ UNCHANGED <<fields, myChart>>

\* The application creates a chart, or replaces the one it has, and its
\* provider function returns the new one from now on.
setMyChart ==
    /\ constructed /\ chart = "provider"
    /\ \E c \in Charts : c # Val(IF myChart = Null THEN Box("") ELSE myChart)
                           /\ myChart' = Box(c)
    /\ UNCHANGED <<currOptionIdx, depth, last>>
    /\ UNCHANGED fields

Next ==
    \/ next
    \/ previous
    \/ \E optionKey \in GoKeys : go(optionKey)
    \/ getOptionKeys
    \/ setOptionReturn
    \/ setOptionThrow
    \/ setMyChart

Spec == Init /\ [][Next]_vars

----------------------------------------------------------------------------
\* Properties.

N == ArrLen(optionList)
Indexes == 0..(N - 1)
Positioned == currOptionIdx # Null

\* The last step was a call of next(), previous() or go().
Navigated == constructed /\ last.op \in {"next", "previous", "go"}
\* The last step entered chart.setOption.
Rendered == last.render # Null

\* The entry at index i refers to a record of the metadata table.
HasMeta(i) == optionList[i].dataMetaKey \in DOMAIN dataMeta
MetaOf(i) == dataMeta[optionList[i].dataMetaKey]
InDimensions(d, meta) == \E x \in DOMAIN meta.dimensions : meta.dimensions[x] = d

\* Some entry carries the key k.
Carried(k) == k # Null /\ \E i \in Indexes : optionList[i].key = k

\* C1: the current position is none or an index of optionList, and once it
\* is an index it never becomes none again.
C1_PositionValid ==
    constructed =>
        /\ currOptionIdx = Null \/ \E i \in Indexes : currOptionIdx = Box(i)
        /\ last.from # Null => currOptionIdx # Null

\* A player of two entries stands at the last one after a failed go() made
\* from there.
C1_Witness ==
    /\ constructed /\ N = 2
    /\ currOptionIdx = Box(1)
    /\ last.op = "go" /\ last.thrown = "Error" /\ last.from = Box(1)

\* C2 as stated: next() moves the position from none to 0 and from any
\* index i to min(i+1, N-1).
C2_NextMoves ==
    (constructed /\ last.op = "next") =>
        currOptionIdx = Box(IF last.from = Null THEN 0
                            ELSE Min(Val(last.from) + 1, N - 1))

\* C3 as stated: previous() moves the position from none to N-1 and from
\* any index i to max(i-1, 0).
C3_PreviousMoves ==
    (constructed /\ last.op = "previous") =>
        currOptionIdx = Box(IF last.from = Null THEN N - 1
                            ELSE Max(Val(last.from) - 1, 0))

\* C4: go(key) with a key no entry carries (null included) throws an Error,
\* leaves the position as it was and enters no chart.setOption call.
C4_GoUnknownKey ==
    (constructed /\ last.op = "go" /\ ~Carried(last.key)) =>
        /\ last.thrown = "Error"
        /\ currOptionIdx = last.from
        /\ ~Rendered

\* A failed go() with a key no entry carries, on a positioned player whose
\* entries carry another key.
C4_Witness ==
    /\ constructed
    /\ last.op = "go" /\ last.key = Box("nonexistent") /\ last.thrown = "Error"
    /\ Positioned
    /\ \E i \in Indexes : optionList[i].key # Null

\* C5 as stated: go(key) with a key an entry carries sets the position to
\* the index of that entry, from any prior position, and does not fail on
\* the way there.
C5_GoMoves ==
    (constructed /\ last.op = "go") =>
        \A i \in Indexes :
            (last.key # Null /\ optionList[i].key = last.key) =>
                /\ currOptionIdx = Box(i)
                /\ last.thrown # "TypeError"

\* The shapes of the descriptor passed to chart.setOption.
IsDefault(t) ==
    /\ t.from = Null
    /\ t.dividingMethod = Null
    /\ t.to = [seriesIndex |-> seriesIndex, dimension |-> Null]
IsCorrelated(t) == t.from # Null
Carries(t, meta) ==
    /\ IsCorrelated(t)
    /\ Val(t.from).dimension = meta.uniqueDimension
    /\ t.to.dimension = meta.uniqueDimension
    /\ t.dividingMethod = meta.dividingMethod

\* metaB's unique dimension is defined and is one of metaA's dimensions.
Matches(metaA, metaB) ==
    /\ metaB.uniqueDimension # Null
    /\ InDimensions(Val(metaB.uniqueDimension), metaA)

\* The last step was a navigation call with a prior entry and a target.
Moved == Navigated /\ last.from # Null /\ last.idx # Null
Old == Val(last.from)
New == Val(last.idx)

\* C6 as stated: a navigation call with a prior entry, where the old or the
\* new entry's metadata key is not in the table, raises no error, passes
\* the default descriptor and moves the position to the new index.
C6_MissingMetaSilent ==
    (Moved /\ (~HasMeta(Old) \/ ~HasMeta(New))) =>
        /\ last.thrown # "TypeError"
        /\ currOptionIdx = last.idx
        /\ Rendered => IsDefault(Val(last.render).transition)

\* C7: with both entries' metadata A (old) and B (new) in the table, the
\* call does not fail on the metadata and the descriptor it passes is
\* correlated iff B's unique dimension is in A's dimensions or A's unique
\* dimension is in B's dimensions; otherwise it is the default descriptor.
C7_CorrelatedIff ==
    (Moved /\ HasMeta(Old) /\ HasMeta(New)) =>
        /\ last.thrown # "TypeError"
        /\ Rendered =>
             IF Matches(MetaOf(Old), MetaOf(New)) \/ Matches(MetaOf(New), MetaOf(Old))
             THEN IsCorrelated(Val(last.render).transition)
             ELSE IsDefault(Val(last.render).transition)

\* A render whose descriptor is correlated through the old entry's unique
\* dimension alone (the new entry declares none).
C7_Witness ==
    /\ Moved /\ Rendered
    /\ HasMeta(Old) /\ HasMeta(New)
    /\ MetaOf(New).uniqueDimension = Null
    /\ Matches(MetaOf(New), MetaOf(Old))
    /\ IsCorrelated(Val(last.render).transition)

\* C8: when the new entry's unique dimension is in the old entry's
\* dimensions the descriptor carries the new entry's unique dimension and
\* dividing method, whatever the other direction would give; the old
\* entry's are carried only when that first check fails.
C8_FirstMatchWins ==
    (Moved /\ Rendered /\ HasMeta(Old) /\ HasMeta(New)) =>
        LET A == MetaOf(Old)
            B == MetaOf(New)
            t == Val(last.render).transition
        IN  /\ Matches(A, B) => Carries(t, B)
            /\ (~Matches(A, B) /\ Matches(B, A)) => Carries(t, A)

\* A render between two entries that match in both directions with
\* different dimensions and methods; the new entry's are carried.
C8_Witness ==
    /\ Moved /\ Rendered
    /\ HasMeta(Old) /\ HasMeta(New)
    /\ LET A == MetaOf(Old)
           B == MetaOf(New)
       IN  /\ Matches(A, B) /\ Matches(B, A)
           /\ A.uniqueDimension # B.uniqueDimension
           /\ A.dividingMethod # B.dividingMethod
           /\ Carries(Val(last.render).transition, B)

\* C9: when chart.setOption is entered the position already is the new
\* index; a navigation call made next, from inside that render, starts
\* from that index; and the end of a render leaves the position as the
\* innermost call set it.
C9_PositionBeforeRender ==
    [][/\ last'.render # Null => currOptionIdx' = last'.idx
       /\ (last.render # Null /\ last'.op \in {"next", "previous", "go"}
               /\ myChart' = myChart) =>
             last'.from = last.idx
       /\ depth' < depth => currOptionIdx' = currOptionIdx]_vars

\* A call made from inside a render: it moved from one index to another,
\* the position is its index and it has entered its own render.
C9_Witness ==
    /\ Moved /\ Rendered
    /\ depth = 2
    /\ New # Old
    /\ currOptionIdx = last.idx

\* C10: getOptionKeys() returns the entry keys in construction order, null
\* keys in place, in every state, and changes neither the position nor the
\* renders in flight.
C10_OptionKeys ==
    /\ (constructed /\ last.op = "getOptionKeys") =>
         /\ last.thrown = "none"
         /\ last.returned # Null
         /\ DOMAIN Val(last.returned) = DOMAIN Val(opt.optionList)
         /\ \A i \in DOMAIN Val(opt.optionList) :
              Val(last.returned)[i] = Val(opt.optionList)[i].key
         /\ currOptionIdx = last.from
         /\ ~Rendered

\* Keys returned during a render on a positioned player: a null key first,
\* a user key second.
C10_Witness ==
    /\ constructed /\ last.op = "getOptionKeys"
    /\ Positioned /\ depth > 0
    /\ N = 2
    /\ Val(last.returned)[0] = Null
    /\ Val(last.returned)[1] # Null

\* The arguments given to the constructor pass its first assert: a chart
\* handle, a metadata table and a non-empty list of entries.
Usable == opt.chart # Null /\ opt.dataMeta # Null
          /\ opt.optionList # Null /\ ArrLen(Val(opt.optionList)) > 0

\* Two entries of the list given to the constructor carry the same key.
Duplicated ==
    \E i, j \in DOMAIN Val(opt.optionList) :
        /\ i < j
        /\ Val(opt.optionList)[i].key # Null
        /\ Val(opt.optionList)[i].key = Val(opt.optionList)[j].key

Created == last.op = "create"

\* C12: construction without a chart handle, without a metadata table or
\* without a non-empty list of entries throws, yields no player and calls
\* neither the chart nor a provider function; with them and no duplicate key
\* it yields a player whose position is none, and calls neither as well.
C12_Construction ==
    Created =>
        /\ last.calls = NoCalls /\ last.render = Null /\ depth = 0
        /\ ~Usable => ~constructed /\ last.thrown = "Error"
        /\ (Usable /\ ~Duplicated) =>
              constructed /\ last.thrown = "none" /\ currOptionIdx = Null

\* Construction with a provider function and a metadata table but an empty
\* list of entries failed.
C12_Witness ==
    /\ Created /\ ~constructed /\ last.thrown = "Error"
    /\ opt.chart = Box("provider") /\ opt.dataMeta # Null
    /\ opt.optionList # Null /\ ArrLen(Val(opt.optionList)) = 0

\* C13: the constructor does not call the provider function; a navigation
\* call that gets past the transition descriptor calls _getChart once, and
\* with it the provider function once if there is one; the render goes to
\* the chart the provider function returns at that moment, or to the chart
\* instance given to the constructor, and is made whenever there is one.
C13_LateChart ==
    /\ Created => last.calls.getChart = 0 /\ last.calls.provider = 0
    /\ [][(myChart' = myChart /\ last'.op \in {"next", "previous", "go"}
               /\ last'.idx # Null /\ last'.thrown # "TypeError") =>
             /\ last'.calls.getChart = 1
             /\ last'.calls.provider = (IF opt.chart = Box("provider") THEN 1 ELSE 0)
             /\ LET target == IF opt.chart = Box("provider") THEN myChart ELSE opt.chart
                IN  IF target = Null
                    THEN last'.thrown = "ChartError" /\ last'.render = Null
                    ELSE /\ last'.thrown = "none" /\ last'.render # Null
                         /\ Val(last'.render).chart = Val(target)]_vars

\* A player with a provider function rendered to the second chart of the
\* application after a call that found no chart.
C13_Witness ==
    /\ Navigated /\ Rendered
    /\ opt.chart = Box("provider")
    /\ last.calls.provider = 1
    /\ Val(last.render).chart = "chartB"
    /\ myChart = Box("chartB")
    /\ last.from # Null

\* The series index given to the constructor, 0 when none was given.
TargetSeries == IF opt.seriesIndex = Null THEN 0 ELSE Val(opt.seriesIndex)

\* The descriptor without correlation, and the one that carries the unique
\* dimension and the dividing method of meta.
Plain == [from |-> Null,
          to |-> [seriesIndex |-> TargetSeries, dimension |-> Null],
          dividingMethod |-> Null]
Through(meta) ==
    [from |-> Box([seriesIndex |-> TargetSeries, dimension |-> meta.uniqueDimension]),
     to |-> [seriesIndex |-> TargetSeries, dimension |-> meta.uniqueDimension],
     dividingMethod |-> meta.dividingMethod]

\* The descriptor for the pair of an old position (Null or <<index>>) and a
\* new index whose metadata are in the table.
Descriptor(old, new) ==
    IF old = Null THEN Plain
    ELSE LET A == MetaOf(Val(old))
             B == MetaOf(new)
         IN  IF Matches(A, B) THEN Through(B)
             ELSE IF Matches(B, A) THEN Through(A)
             ELSE Plain

\* The pair has a descriptor: no old entry, or both metadata in the table.
Described(old, new) == old = Null \/ (HasMeta(Val(old)) /\ HasMeta(new))

\* After a go(): a go() to the entry the player stands at leaves it there,
\* and the descriptor passed is the one of the pair (old entry, new entry).
C14_After ==
    (constructed /\ last.op = "go" /\ last.idx # Null) =>
        /\ last.from = last.idx => currOptionIdx = last.idx
        /\ (Rendered /\ Described(last.from, New)) =>
              Val(last.render).transition = Descriptor(last.from, New)

\* C14: a go(key) made right after a go(key) with the same key leaves the
\* position where the first one left it, a go() to the entry the player
\* stands at leaves it there, and the descriptor a go() passes is a function
\* of the pair (old entry, new entry).
C14_GoTwice ==
    [][/\ C14_After'
       /\ (last.op = "go" /\ last'.op = "go" /\ last'.key = last.key
               /\ myChart' = myChart) =>
             currOptionIdx' = currOptionIdx]_vars

\* The second of two go() calls with the key of an entry that matches
\* itself: it stayed at that entry and passed a correlated descriptor.
C14_Witness ==
    /\ constructed /\ last.op = "go" /\ last.idx # Null
    /\ last.from = last.idx /\ currOptionIdx = last.idx
    /\ Rendered /\ HasMeta(New)
    /\ IsCorrelated(Val(last.render).transition)

\* After a navigation call that threw nothing: a render is entered with the
\* option of the entry at the position, which is the index the call was to
\* move to, the replaceMerge given to the constructor and the descriptor of
\* the pair (old entry, new entry).
C15_After ==
    (Navigated /\ last.thrown = "none") =>
        /\ Rendered /\ last.idx # Null
        /\ currOptionIdx = last.idx
        /\ Val(last.render).option = Val(opt.optionList)[Val(currOptionIdx)].option
        /\ Val(last.render).replaceMerge = opt.replaceMerge
        /\ Described(last.from, New) =>
              Val(last.render).transition = Descriptor(last.from, New)

\* C15: a navigation call that does not fail enters exactly one
\* chart.setOption call, with the option of the entry at the resulting
\* position, the configured replaceMerge and the descriptor computed for the
\* old and the new entry, also when the position does not change; no other
\* step enters a render.
C15_OneRender ==
    [][myChart' = myChart =>
         /\ C15_After'
         /\ (last'.op \in {"next", "previous", "go"} /\ last'.thrown = "none") =>
               depth' = depth + 1
         /\ last'.render # Null => depth' = depth + 1
         /\ depth' <= depth + 1]_vars

\* next() on a player at its last entry: the position stayed, and the
\* render got that entry's option and a descriptor correlated from the
\* entry to itself.
C15_Witness ==
    /\ constructed /\ last.op = "next" /\ last.thrown = "none"
    /\ N = 2 /\ last.from = Box(1) /\ currOptionIdx = Box(1)
    /\ Rendered /\ HasMeta(1)
    /\ Val(last.render).option = optionList[1].option
    /\ Val(last.render).transition = Through(MetaOf(1))

\* C16: the first navigation call to an entry, made at position none, does
\* not fail on the metadata, whatever the metadata key of the entry, sets
\* the position to the entry's index and, unless there is no chart to
\* render to, enters a render with the default descriptor.
C16_FirstCall ==
    (Navigated /\ last.from = Null /\ last.idx # Null) =>
        /\ last.thrown \in {"none", "ChartError"}
        /\ currOptionIdx = last.idx
        /\ last.thrown = "none" =>
              Rendered /\ Val(last.render).transition = Plain

\* A first call to an entry whose metadata key is not in the table: the
\* position is set and the render got the default descriptor.
C16_Witness ==
    /\ Navigated /\ last.from = Null /\ last.idx # Null
    /\ ~HasMeta(New)
    /\ currOptionIdx = last.idx
    /\ Rendered /\ Val(last.render).transition = Plain

\* C17: every descriptor passed to chart.setOption carries the series index
\* given to the constructor (0 when none was given): the default one in its
\* destination only, with no dimension; the correlated one in its source
\* and its destination, with the same dimension in both.
C17_SeriesIndex ==
    Rendered =>
        LET t == Val(last.render).transition IN
        /\ t.to.seriesIndex = TargetSeries
        /\ t.from = Null => t.to.dimension = Null
        /\ t.from # Null =>
              /\ Val(t.from).seriesIndex = TargetSeries
              /\ Val(t.from).dimension # Null
              /\ Val(t.from).dimension = t.to.dimension

\* A correlated descriptor passed by a player constructed with series
\* index 1.
C17_Witness ==
    /\ Rendered /\ opt.seriesIndex = Box(1)
    /\ LET t == Val(last.render).transition IN
         /\ t.from # Null
         /\ Val(t.from).seriesIndex = 1 /\ t.to.seriesIndex = 1
         /\ Val(t.from).dimension = t.to.dimension

\* C19: when a navigation call finds no chart to render to, or when the
\* render it entered throws, the position is not put back: it is the index
\* the call set, and the navigation call made next starts from that entry
\* and passes the descriptor of the pair it forms with its own target.
C19_NoRollBack ==
    [][myChart' = myChart =>
         /\ last'.thrown = "ChartError" => currOptionIdx' = last'.idx
         /\ (last'.op = "setOption" /\ last'.thrown = "RenderError") =>
               /\ currOptionIdx' = currOptionIdx
               /\ last.render # Null => currOptionIdx' = last.idx
         /\ (last.thrown \in {"ChartError", "RenderError"}
                 /\ last'.op \in {"next", "previous", "go"}) =>
               /\ last'.from = (IF last.thrown = "ChartError" THEN last.idx ELSE last.from)
               /\ last'.from = currOptionIdx
               /\ (last'.render # Null /\ Described(last'.from, Val(last'.idx))) =>
                     Val(last'.render).transition =
                         Descriptor(currOptionIdx, Val(last'.idx))]_vars

\* A call that moved from one entry to another and found no chart to render
\* to: the position is the new index.
C19_Witness ==
    /\ Moved /\ last.thrown = "ChartError"
    /\ New # Old
    /\ currOptionIdx = last.idx
    /\ ~Rendered

\* C20: a navigation call that fails while it computes the descriptor
\* leaves the position as it was, reaches neither _getChart nor
\* chart.setOption; the position differs from the one before the last step
\* only after a navigation call that went on to _getChart.
C20_DescriptorFailure ==
    /\ (Navigated /\ last.thrown = "TypeError") =>
          /\ currOptionIdx = last.from
          /\ ~Rendered
          /\ last.calls = NoCalls
    /\ (constructed /\ currOptionIdx # last.from) =>
          /\ Navigated
          /\ last.calls.getChart = 1
          /\ last.thrown \in {"none", "ChartError"}

\* A call from one entry to another whose metadata key is not in the table
\* threw: the position is the old index and no render was entered.
C20_Witness ==
    /\ Moved /\ last.thrown = "TypeError"
    /\ New # Old /\ HasMeta(Old) /\ ~HasMeta(New)
    /\ currOptionIdx = last.from
    /\ ~Rendered

====
